---- MODULE Spec2Model ----
(***************************************************************************)
(* Model of lib/exceptionhandler/exceptionhandler.c (POSIX branch):        *)
(* wz_strsignal, setFatalSignalHandler, execGdb, gdbExtendedBacktrace,     *)
(* posixExceptionHandler and setupExceptionHandler, together with the      *)
(* POSIX signal machinery they run on (dispositions, the per-thread mask   *)
(* of the signals whose handlers are running, pending signals).            *)
(***************************************************************************)
EXTENDS Integers, Sequences, FiniteSets, TLC

(* ------------------------------ bounds --------------------------------- *)

\* Adverse events the environment produces in one thread of a run: faults
\* it generates there (raise() calls of the handler itself are not counted)
\* and mkstemp() calls it makes fail.
MaxFaults == 3

\* Signals whose disposition differs from SIG_DFL before setupExceptionHandler.
MaxNonDefault == 2

\* Size of the buffers programPath and gdbPath (PATH_MAX in the code).
BufSize == 3

(* ------------------------------ signals -------------------------------- *)

\* Signals setFatalSignalHandler subscribes to on every build.
FatalBase == <<"SIGABRT", "SIGBUS", "SIGFPE", "SIGILL", "SIGQUIT", "SIGSEGV">>

\* Signals it subscribes to only when _XOPEN_UNIX is defined.
FatalXopen_m == <<"SIGSYS", "SIGTRAP", "SIGXCPU", "SIGXFSZ", "SIGWINCH">>
FatalXopen == <<"SIGSYS", "SIGTRAP", "SIGXCPU", "SIGXFSZ">>

\* Case labels of wz_strsignal present on every build.
CasedBase ==
    {"SIGABRT", "SIGALRM", "SIGBUS", "SIGCHLD", "SIGCONT", "SIGFPE", "SIGHUP",
     "SIGILL", "SIGINT", "SIGKILL", "SIGPIPE", "SIGQUIT", "SIGSEGV", "SIGSTOP",
     "SIGTERM", "SIGTSTP", "SIGTTIN", "SIGTTOU", "SIGUSR1", "SIGUSR2", "SIGURG"}

\* Case labels of wz_strsignal inside #if _XOPEN_UNIX.
CasedXopen ==
    {"SIGPOLL", "SIGPROF", "SIGSYS", "SIGTRAP", "SIGVTALRM", "SIGXCPU", "SIGXFSZ"}

\* Signal numbers the switch of wz_strsignal never names.
Uncased == {"SIGWINCH", "SIGSTKFLT"}

Signals == CasedBase \cup CasedXopen \cup Uncased

\* si_code of a signal sent by kill()/raise(): no case label of any inner
\* switch has this value.
SI_USER == "SI_USER"

\* The cause codes the inner switch of a signal names.  Cause codes are
\* integers whose meaning depends on the signal, so a cause code is modelled
\* relative to its signal: one of the names below, or SI_USER.
CodesOf(signum) ==
    CASE signum = "SIGBUS"  -> {"BUS_ADRALN", "BUS_ADRERR", "BUS_OBJERR"}
      [] signum = "SIGCHLD" -> {"CLD_EXITED", "CLD_KILLED", "CLD_DUMPED",
                                "CLD_TRAPPED", "CLD_STOPPED", "CLD_CONTINUED"}
      [] signum = "SIGFPE"  -> {"FPE_INTDIV", "FPE_INTOVF", "FPE_FLTDIV",
                                "FPE_FLTOVF", "FPE_FLTUND", "FPE_FLTRES",
                                "FPE_FLTINV", "FPE_FLTSUB"}
      [] signum = "SIGILL"  -> {"ILL_ILLOPC", "ILL_ILLOPN", "ILL_ILLADR",
                                "ILL_ILLTRP", "ILL_PRVOPC", "ILL_PRVREG",
                                "ILL_COPROC", "ILL_BADSTK"}
      [] signum = "SIGSEGV" -> {"SEGV_MAPERR", "SEGV_ACCERR"}
      [] signum = "SIGPOLL" -> {"POLL_IN", "POLL_OUT", "POLL_MSG", "POLL_ERR",
                                "POLL_PRI", "POLL_HUP"}
      [] signum = "SIGTRAP" -> {"TRAP_BRKPT", "TRAP_TRACE"}
      [] OTHER -> {}

\* The build configurations: _XOPEN_UNIX defined or not, __GLIBC__ defined or
\* not, POLL_ERR and POLL_HUP the same value (FreeBSD) or not.
Builds == [xopen : BOOLEAN, glibc : BOOLEAN, pollSame : BOOLEAN]

(* ------------------------- Signal Classifier --------------------------- *)

\* The inner switch of case SIGPOLL.
wz_strsignal_SIGPOLL(b, sigcode) ==
    LET code == IF b.pollSame /\ sigcode = "POLL_HUP" THEN "POLL_ERR" ELSE sigcode
    IN  CASE code = "POLL_IN"  -> "SIGPOLL: Pollable event: Data input available"
          [] code = "POLL_OUT" -> "SIGPOLL: Pollable event: Output buffers available"
          [] code = "POLL_MSG" -> "SIGPOLL: Pollable event: Input message available"
          [] code = "POLL_ERR" /\ ~b.pollSame -> "SIGPOLL: Pollable event: I/O error"
          [] code = "POLL_PRI" -> "SIGPOLL: Pollable event: High priority input available"
          [] code = "POLL_HUP" /\ ~b.pollSame -> "SIGPOLL: Pollable event: Device disconnected."
          [] code = "POLL_ERR" /\ b.pollSame ->
                 "SIGPOLL: Pollable event: \"I/O error\" or \"Device disconnected\"."
          [] OTHER -> "SIGPOLL: Pollable event"

\* The default label of the outer switch.
wz_strsignal_default_m == ""
wz_strsignal_default == "Unknown signal"

\* The cases inside #if _XOPEN_UNIX; without _XOPEN_UNIX they do not exist
\* and control reaches the default label.
wz_strsignal_xopen(b, signum, sigcode) ==
    IF ~b.xopen THEN wz_strsignal_default
    ELSE CASE signum = "SIGPOLL" -> wz_strsignal_SIGPOLL(b, sigcode)
           [] signum = "SIGPROF" -> "SIGPROF: Profiling timer expired"
           [] signum = "SIGSYS"  -> "SIGSYS: Bad system call"
           [] signum = "SIGTRAP" ->
                CASE sigcode = "TRAP_BRKPT" -> "SIGTRAP: Trace/breakpoint trap: Process breakpoint"
                  [] sigcode = "TRAP_TRACE" -> "SIGTRAP: Trace/breakpoint trap: Process trace trap"
                  [] OTHER -> "SIGTRAP: Trace/breakpoint trap"
           [] signum = "SIGVTALRM" -> "SIGVTALRM: Virtual timer expired"
           [] signum = "SIGXCPU" -> "SIGXCPU: CPU time limit exceeded"
           [] signum = "SIGXFSZ" -> "SIGXFSZ: File size limit exceeded"
           [] OTHER -> wz_strsignal_default

\* wz_strsignal(signum, sigcode) on build b.  The inner switch of case SIGCHLD
\* has no default label and no return after it: with a cause code it does not
\* name, control falls through into case SIGCONT.
wz_strsignal(b, signum, sigcode) ==
    CASE signum = "SIGABRT" -> "SIGABRT: Process abort signal"
      [] signum = "SIGALRM" -> "SIGALRM: Alarm clock"
      [] signum = "SIGBUS" ->
           CASE sigcode = "BUS_ADRALN" -> "SIGBUS: Access to an undefined portion of a memory object: Invalid address alignment"
             [] sigcode = "BUS_ADRERR" -> "SIGBUS: Access to an undefined portion of a memory object: Nonexistent physical address"
             [] sigcode = "BUS_OBJERR" -> "SIGBUS: Access to an undefined portion of a memory object: Object-specific hardware error"
             [] OTHER -> "SIGBUS: Access to an undefined portion of a memory object"
      [] signum = "SIGCHLD" ->
           CASE sigcode = "CLD_EXITED" -> "SIGCHLD: Child process terminated, stopped, or continued: Child has exited"
             [] sigcode = "CLD_KILLED" -> "SIGCHLD: Child process terminated, stopped, or continued: Child has terminated abnormally and did not create a core file"
             [] sigcode = "CLD_DUMPED" -> "SIGCHLD: Child process terminated, stopped, or continued: Child has terminated abnormally and created a core file"
             [] sigcode = "CLD_TRAPPED" -> "SIGCHLD: Child process terminated, stopped, or continued: Traced child has trapped"
             [] sigcode = "CLD_STOPPED" -> "SIGCHLD: Child process terminated, stopped, or continued: Child has stopped"
             [] sigcode = "CLD_CONTINUED" -> "SIGCHLD: Child process terminated, stopped, or continued: Stopped child has continued"
             [] OTHER -> "SIGCONT: Continue executing, if stopped"
      [] signum = "SIGCONT" -> "SIGCONT: Continue executing, if stopped"
      [] signum = "SIGFPE" ->
           CASE sigcode = "FPE_INTDIV" -> "SIGFPE: Erroneous arithmetic operation: Integer divide by zero"
             [] sigcode = "FPE_INTOVF" -> "SIGFPE: Erroneous arithmetic operation: Integer overflow"
             [] sigcode = "FPE_FLTDIV" -> "SIGFPE: Erroneous arithmetic operation: Floating-point divide by zero"
             [] sigcode = "FPE_FLTOVF" -> "SIGFPE: Erroneous arithmetic operation: Floating-point overflow"
             [] sigcode = "FPE_FLTUND" -> "SIGFPE: Erroneous arithmetic operation: Floating-point underflow"
             [] sigcode = "FPE_FLTRES" -> "SIGFPE: Erroneous arithmetic operation: Floating-point inexact result"
             [] sigcode = "FPE_FLTINV" -> "SIGFPE: Erroneous arithmetic operation: Invalid floating-point operation"
             [] sigcode = "FPE_FLTSUB" -> "SIGFPE: Erroneous arithmetic operation: Subscript out of range"
             [] OTHER -> "SIGFPE: Erroneous arithmetic operation"
      [] signum = "SIGHUP" -> "SIGHUP: Hangup"
      [] signum = "SIGILL" ->
           CASE sigcode = "ILL_ILLOPC" -> "SIGILL: Illegal instruction: Illegal opcode"
             [] sigcode = "ILL_ILLOPN" -> "SIGILL: Illegal instruction: Illegal operand"
             [] sigcode = "ILL_ILLADR" -> "SIGILL: Illegal instruction: Illegal addressing mode"
             [] sigcode = "ILL_ILLTRP" -> "SIGILL: Illegal instruction: Illegal trap"
             [] sigcode = "ILL_PRVOPC" -> "SIGILL: Illegal instruction: Privileged opcode"
             [] sigcode = "ILL_PRVREG" -> "SIGILL: Illegal instruction: Privileged register"
             [] sigcode = "ILL_COPROC" -> "SIGILL: Illegal instruction: Coprocessor error"
             [] sigcode = "ILL_BADSTK" -> "SIGILL: Illegal instruction: Internal stack error"
             [] OTHER -> "SIGILL: Illegal instruction"
      [] signum = "SIGINT" -> "SIGINT: Terminal interrupt signal"
      [] signum = "SIGKILL" -> "SIGKILL: Kill"
      [] signum = "SIGPIPE" -> "SIGPIPE: Write on a pipe with no one to read it"
      [] signum = "SIGQUIT" -> "SIGQUIT: Terminal quit signal"
      [] signum = "SIGSEGV" ->
           CASE sigcode = "SEGV_MAPERR" -> "SIGSEGV: Invalid memory reference: Address not mapped to object"
             [] sigcode = "SEGV_ACCERR" -> "SIGSEGV: Invalid memory reference: Invalid permissions for mapped object"
             [] OTHER -> "SIGSEGV: Invalid memory reference"
      [] signum = "SIGSTOP" -> "SIGSTOP: Stop executing"
      [] signum = "SIGTERM" -> "SIGTERM: Termination signal"
      [] signum = "SIGTSTP" -> "SIGTSTP: Terminal stop signal"
      [] signum = "SIGTTIN" -> "SIGTTIN: Background process attempting read"
      [] signum = "SIGTTOU" -> "SIGTTOU: Background process attempting write"
      [] signum = "SIGUSR1" -> "SIGUSR1: User-defined signal 1"
      [] signum = "SIGUSR2" -> "SIGUSR2: User-defined signal 2"
      [] signum = "SIGURG" -> "SIGURG: High bandwidth data is available at a socket"
      [] OTHER -> wz_strsignal_xopen(b, signum, sigcode)

(* ---------------------- Fault Handler Registrar ------------------------ *)

\* A struct sigaction: the handler and sa_flags (sa_mask is always empty here).
SigDfl == [handler |-> "SIG_DFL", flags |-> {}]
SigIgn == [handler |-> "SIG_IGN", flags |-> {}]
UserAction == [handler |-> "userHandler", flags |-> {"SA_RESTART"}]

\* Dispositions an embedder may have set before setupExceptionHandler runs.
PriorActions == {SigDfl, SigIgn, UserAction}

\* new_handler of setFatalSignalHandler.
new_handler_m(signalHandler) == [handler |-> signalHandler, flags |-> {}]
new_handler(signalHandler) == [handler |-> signalHandler, flags |-> {"SA_SIGINFO"}]

\* The signals setFatalSignalHandler goes through, in its order.
FatalSeq(b) == IF b.xopen THEN FatalBase \o FatalXopen ELSE FatalBase

FatalSet(b) == {FatalSeq(b)[i] : i \in DOMAIN FatalSeq(b)}

\* One pair of lines of setFatalSignalHandler: query the current action into
\* oldAction[sig], and install new_handler unless the signal is ignored.
\* tab = [act |-> the process's dispositions, old |-> oldAction].
SetOneHandler_m(tab, sig, signalHandler) ==
    [act |-> [tab.act EXCEPT ![sig] = new_handler(signalHandler)],
     old |-> [tab.old EXCEPT ![sig] = tab.act[sig]]]
SetOneHandler(tab, sig, signalHandler) ==
    LET cur == tab.act[sig]
    IN  [act |-> IF cur.handler # "SIG_IGN"
                 THEN [tab.act EXCEPT ![sig] = new_handler(signalHandler)]
                 ELSE tab.act,
         old |-> [tab.old EXCEPT ![sig] = cur]]

RECURSIVE SetHandlers(_, _, _)
SetHandlers(tab, sigs, signalHandler) ==
    IF sigs = <<>> THEN tab
    ELSE SetHandlers(SetOneHandler(tab, Head(sigs), signalHandler), Tail(sigs), signalHandler)

setFatalSignalHandler(b, tab, signalHandler) == SetHandlers(tab, FatalSeq(b), signalHandler)

(* --------------------------- fetchProgramPath -------------------------- *)

\* The bytes "which" prints: a character of a path, or a linefeed.
WhichChars == {"a", "\n"}

\* What popen("which <command>", "r") yields: whether the stream could be
\* opened and, if so, everything the command prints (at most one byte more
\* than the buffer holds).
WhichStreams ==
    [started : {TRUE}, out : UNION {[1..n -> WhichChars] : n \in 0..(BufSize + 1)}]

PopenFailed == [started |-> FALSE, out |-> <<>>]

WhichOutcomes == WhichStreams \cup {PopenFailed}

\* "which" found the command and printed its path, or printed nothing.
WhichFound == [started |-> TRUE, out |-> <<"a", "\n">>]

WhichNotFound == [started |-> TRUE, out |-> <<>>]

\* fetchProgramPath(programPath, bufSize, programCommand) reading out from an
\* open stream: the value returned and the buffer it leaves behind (up to the
\* first NUL).
fetchProgramPath_m(out, bufSize) ==
    LET bytesRead == IF Len(out) < bufSize THEN Len(out) ELSE bufSize
        buf == SubSeq(out, 1, bytesRead)
        lfs == {i \in 1..bytesRead : buf[i] = "\n"}
        linefeed == CHOOSE i \in lfs : \A j \in lfs : i <= j
        cut == IF lfs = {} THEN buf ELSE SubSeq(buf, 1, linefeed - 1)
    IN  [ok |-> cut # <<>>, path |-> cut]
fetchProgramPath(out, bufSize) ==
    LET bytesRead == IF Len(out) < bufSize THEN Len(out) ELSE bufSize
        buf == SubSeq(out, 1, bytesRead)
        lfs == {i \in 1..bytesRead : buf[i] = "\n"}
        linefeed == CHOOSE i \in lfs : \A j \in lfs : i <= j
        cut == IF lfs = {} THEN buf ELSE SubSeq(buf, 1, linefeed - 1)
    IN  IF bytesRead = bufSize THEN [ok |-> FALSE, path |-> buf]
        ELSE [ok |-> cut # <<>>, path |-> cut]

(* ------------------------------- state --------------------------------- *)

VARIABLES
    build,                \* the build configuration (a member of Builds)
    prior,                \* dispositions in place before setupExceptionHandler
    which,                \* what popen("which ...") yields for the program and for gdb
    flaky,                \* write() to a dump file may fail in this run
    programPath,          \* static char programPath[PATH_MAX]
    gdbPath,              \* static char gdbPath[PATH_MAX]
    sigact,               \* the process's current disposition of every signal
    oldAction,            \* static struct sigaction oldAction[]
    programIsAvailable,   \* static BOOL programIsAvailable
    gdbIsAvailable,       \* static BOOL gdbIsAvailable
    installed,            \* setupExceptionHandler has run
    allreadyRunning,      \* static sig_atomic_t allreadyRunning
    threads,              \* the threads of the process
    stack,                \* per thread: the running posixExceptionHandler frames
    pending,              \* per thread: signals raised while blocked
    termSig,              \* "none", or the signal whose default action ended the process
    files,                \* the dump files created by mkstemp
    children,             \* the processes created by fork
    faults,               \* per thread: environment events (faults, mkstemp failures) so far
    budget,               \* per thread: environment events of the run
    userCalls,            \* per signal: invocations of the embedder's handler
    done,                 \* per thread: the posixExceptionHandler invocations that returned
    cls                   \* one call of wz_strsignal: its arguments and result

vars == <<build, prior, which, flaky, programPath, gdbPath, sigact, oldAction, programIsAvailable, gdbIsAvailable,
          installed, allreadyRunning, threads, stack, pending, termSig, files,
          children, faults, budget, userCalls, done, cls>>

\* The signals the environment generates in the fault model, and the cause
\* codes it generates them with.
FaultSigs == {"SIGSEGV", "SIGABRT"}

FaultCodes(s) == IF s = "SIGSEGV" THEN {"SEGV_MAPERR"} ELSE {SI_USER}

\* Dispositions before setup: all SIG_DFL except at most k signals of sigs.
RECURSIVE Priors(_, _)
Priors(sigs, k) ==
    IF k = 0 THEN {[s \in Signals |-> SigDfl]}
    ELSE LET P == Priors(sigs, k - 1)
         IN  P \cup {[p EXCEPT ![s] = a] : p \in P, s \in sigs, a \in PriorActions}

NoCall == [signum |-> "none", sigcode |-> "none", result |-> "none"]

\* The state every specification starts from, but for the inputs it draws.
InitCommon ==
    /\ sigact = prior
    /\ oldAction = [s \in Signals |-> SigDfl]
    /\ programIsAvailable = FALSE
    /\ gdbIsAvailable = FALSE
    /\ programPath = <<>>
    /\ gdbPath = <<>>
    /\ installed = FALSE
    /\ allreadyRunning = 0
    /\ stack = [t \in threads |-> <<>>]
    /\ pending = [t \in threads |-> {}]
    /\ termSig = "none"
    /\ files = <<>>
    /\ children = <<>>
    /\ faults = [t \in threads |-> 0]
    /\ userCalls = [s \in Signals |-> 0]
    /\ done = [t \in threads |-> <<>>]
    /\ cls = NoCall

Init ==
    /\ build = [xopen |-> TRUE, glibc |-> TRUE, pollSame |-> FALSE]
    /\ prior \in Priors(FaultSigs, MaxNonDefault)
    /\ which \in [program : {WhichFound, WhichNotFound}, gdb : {WhichFound, WhichNotFound}]
    /\ flaky = FALSE
    /\ threads = {1}
    /\ budget = [t \in threads |-> MaxFaults]
    /\ InitCommon

(* ------------------------ setupExceptionHandler ------------------------ *)

\* setupExceptionHandler: the two fetchProgramPath results set the
\* availability flags, then setFatalSignalHandler(posixExceptionHandler).
\* fetchProgramPath does not test the result of popen: with a NULL stream,
\* fread(..., NULL) and pclose(NULL) are undefined; either they fail and
\* nothing is read, or the process is killed there (SIGSEGV, with the
\* handlers not installed yet).
setupExceptionHandler ==
    /\ ~installed /\ termSig = "none"
    /\ LET p == fetchProgramPath(which.program.out, BufSize)
           g == fetchProgramPath(which.gdb.out, BufSize)
           tab == setFatalSignalHandler(build, [act |-> sigact, old |-> oldAction],
                                        "posixExceptionHandler")
       IN  \/ /\ programIsAvailable' = p.ok /\ programPath' = p.path
              /\ gdbIsAvailable' = g.ok /\ gdbPath' = g.path
              /\ sigact' = tab.act
              /\ oldAction' = tab.old
              /\ installed' = TRUE
              /\ termSig' = termSig
           \/ /\ ~which.program.started
              /\ termSig' = "SIGSEGV"
              /\ UNCHANGED <<programIsAvailable, programPath, gdbIsAvailable, gdbPath,
                             sigact, oldAction, installed>>
           \/ /\ ~which.gdb.started
              /\ programIsAvailable' = p.ok /\ programPath' = p.path
              /\ termSig' = "SIGSEGV"
              /\ UNCHANGED <<gdbIsAvailable, gdbPath, sigact, oldAction, installed>>
    /\ UNCHANGED <<build, prior, which, flaky, allreadyRunning, threads, stack, pending,
                   files, children, faults, budget, userCalls, done, cls>>

(* --------------------------- signal delivery --------------------------- *)

\* The signals blocked in thread t: sa_mask is empty and SA_NODEFER is not
\* set, so exactly the signals whose handler is running there.
Blocked(t) == {stack[t][i].signum : i \in DOMAIN stack[t]}

\* A fresh activation of posixExceptionHandler(signum, siginfo, sigcontext).
NewFrame(signum, sigcode) ==
    [signum |-> signum, sigcode |-> sigcode, pc |-> "guard", sawRunning |-> -1,
     dumpFile |-> 0, pid |-> 0, pipeR |-> "none", pipeW |-> "none",
     ret |-> "none", outcome |-> "none", printed |-> <<>>, trace |-> <<>>,
     lost |-> {}]

\* Signal s is delivered to thread t, whose stack is stk: by the signal's
\* current disposition the process ends (SIG_DFL), nothing happens (SIG_IGN),
\* the embedder's handler runs and returns, or posixExceptionHandler is entered.
Dispatch(t, s, sigcode, stk) ==
    LET h == sigact[s].handler
    IN  /\ termSig' = IF h = "SIG_DFL" THEN s ELSE termSig
        /\ userCalls' = IF h = "userHandler"
                        THEN [userCalls EXCEPT ![s] = @ + 1] ELSE userCalls
        /\ stack' = [stack EXCEPT ![t] =
                        IF h = "posixExceptionHandler"
                        THEN Append(stk, NewFrame(s, sigcode)) ELSE stk]

\* The environment generates a fault in thread t: a signal of the fault model
\* that is not blocked there.
Fault(t) ==
    /\ installed /\ termSig = "none"
    /\ faults[t] < budget[t]
    /\ \E s \in FaultSigs \ Blocked(t) : \E c \in FaultCodes(s) :
          Dispatch(t, s, c, stack[t])
    /\ faults' = [faults EXCEPT ![t] = @ + 1]
    /\ UNCHANGED <<build, prior, which, flaky, programPath, gdbPath, sigact, oldAction, programIsAvailable,
                   gdbIsAvailable, installed, allreadyRunning, threads, pending,
                   files, children, budget, done, cls>>

(* ------------------------- posixExceptionHandler ----------------------- *)

Top(t) == stack[t][Len(stack[t])]

SetTop(t, f) == [stack EXCEPT ![t] = [@ EXCEPT ![Len(@)] = f]]

\* Thread t runs posixExceptionHandler and is about to execute step pc of it.
At(t, pc) == termSig = "none" /\ stack[t] # <<>> /\ Top(t).pc = pc

Step(f, pc, event) == [f EXCEPT !.pc = pc, !.trace = Append(@, event)]

\* write(fd, ...) of the strings ws, in order.
Write(fs, fd, ws) == [fs EXCEPT ![fd].content = @ \o ws]

\* One printf: the message and the dump file whose path it names (0: none
\* that was created).
Printed(msg, fd) == [msg |-> msg, file |-> fd]

\* The handler returns: its signal is unblocked again, and if it was raised
\* in the meantime the kernel delivers it at once, by its current disposition.
ReturnFrom(t, f) ==
    LET base == SubSeq(stack[t], 1, Len(stack[t]) - 1)
        s == f.signum
    IN  /\ done' = [done EXCEPT ![t] = Append(@, f)]
        /\ IF s \in pending[t]
           THEN /\ pending' = [pending EXCEPT ![t] = @ \ {s}]
                /\ Dispatch(t, s, SI_USER, base)
           ELSE /\ pending' = pending
                /\ termSig' = termSig
                /\ userCalls' = userCalls
                /\ stack' = [stack EXCEPT ![t] = base]

\* if (allreadyRunning) raise(signum);  The signal is blocked while its
\* handler runs, so raise() leaves it pending and returns.
Guard(t) ==
    /\ At(t, "guard")
    /\ LET f == Top(t)
           g == [f EXCEPT !.sawRunning = allreadyRunning]
       IN  IF allreadyRunning # 0
           THEN /\ pending' = [pending EXCEPT ![t] = @ \cup {f.signum}]
                /\ stack' = SetTop(t, Step(g, "setflag", "raise"))
           ELSE /\ pending' = pending
                /\ stack' = SetTop(t, [g EXCEPT !.pc = "setflag"])
    /\ UNCHANGED <<build, prior, which, flaky, programPath, gdbPath, sigact, oldAction, programIsAvailable,
                   gdbIsAvailable, installed, allreadyRunning, threads, termSig,
                   files, children, faults, budget, userCalls, done, cls>>

\* allreadyRunning = 1;
SetFlag(t) ==
    /\ At(t, "setflag")
    /\ allreadyRunning' = 1
    /\ stack' = SetTop(t, [Top(t) EXCEPT !.pc = "mkstemp"])
    /\ UNCHANGED <<build, prior, which, flaky, programPath, gdbPath, sigact, oldAction, programIsAvailable,
                   gdbIsAvailable, installed, threads, pending, termSig, files,
                   children, faults, budget, userCalls, done, cls>>

\* const int dumpFile = mkstemp(dumpFilename), and the dumpFile == -1 branch.
\* A failure of mkstemp is an event of the environment, counted in faults.
Mkstemp(t) ==
    /\ At(t, "mkstemp")
    /\ \/ /\ files' = Append(files, [open |-> TRUE, content |-> <<>>, synced |-> 0])
          /\ stack' = SetTop(t, Step([Top(t) EXCEPT !.dumpFile = Len(files) + 1],
                                     "capture", "mkstemp"))
          /\ UNCHANGED <<done, pending, termSig, userCalls, faults>>
       \/ /\ faults[t] < budget[t]
          /\ faults' = [faults EXCEPT ![t] = @ + 1]
          /\ ReturnFrom(t, Step([Top(t) EXCEPT !.dumpFile = -1,
                                               !.printed = Append(@, Printed("Failed to create dump file", 0))],
                                "returned", "printf_failed"))
          /\ files' = files
    /\ UNCHANGED <<build, prior, which, flaky, programPath, gdbPath, sigact, oldAction, programIsAvailable,
                   gdbIsAvailable, installed, allreadyRunning, threads, children,
                   budget, cls>>

\* What dbgDumpHeader and dbgDumpLog write: the collaborators' sections.
dbgDumpHeader == <<"<header>">>

dbgDumpLog == <<"<log>">>

\* The three writes of the fault description.
SignalDescription(f) ==
    <<"Dump caused by signal: ", wz_strsignal(build, f.signum, f.sigcode), "\n\n">>

\* The raw backtrace with __GLIBC__, the note without.
RawBacktrace ==
    IF build.glibc
    THEN <<"GLIBC raw backtrace:\n", "<backtrace_symbols>", "\n">>
    ELSE <<"GLIBC not available, no raw backtrace dumped\n\n">>

\* Everything posixExceptionHandler writes before it calls gdbExtendedBacktrace.
CaptureSections(f) == dbgDumpHeader \o SignalDescription(f) \o dbgDumpLog \o RawBacktrace

\* The writes of the capture steps, by the section they write, and the write
\* of a note by execGdb or gdbExtendedBacktrace.
CaptureWrites == {"header", "description", "log", "backtrace"}

NoteWrites == {"notes"}

\* The writes among names that fail: write() returns -1 and the dump file
\* does not get the bytes.  None fails unless the run is flaky.
WriteOutcomes(names) == IF flaky THEN SUBSET names ELSE {{}}

\* What the write of ws for section name leaves in the file.
Kept(name, lost, ws) == IF name \in lost THEN <<>> ELSE ws

\* What reaches the dump file of the capture sections when the writes in
\* lost fail.
CaptureWritten_m(f, lost) ==
    Kept("description", lost, SignalDescription(f)) \o Kept("header", lost, dbgDumpHeader)
    \o Kept("log", lost, dbgDumpLog) \o Kept("backtrace", lost, RawBacktrace)
CaptureWritten(f, lost) ==
    Kept("header", lost, dbgDumpHeader) \o Kept("description", lost, SignalDescription(f))
    \o Kept("log", lost, dbgDumpLog) \o Kept("backtrace", lost, RawBacktrace)

\* Where posixExceptionHandler continues after the capture steps of which
\* the writes in lost failed: no return value of theirs is looked at.
AfterCapture_m(lost) == IF lost # {} THEN "restore" ELSE "execGdb"
AfterCapture(lost) == "execGdb"

\* The capture steps, in the order of the code: header, fault description,
\* recent log, raw backtrace, fsync(dumpFile).  Their return values are not
\* looked at.
Capture(t) ==
    /\ At(t, "capture")
    /\ \E lost \in WriteOutcomes(CaptureWrites) :
          LET f == Top(t)
              fd == f.dumpFile
              written == Write(files, fd, CaptureWritten(f, lost))
          IN  /\ files' = [written EXCEPT ![fd].synced = Len(written[fd].content)]
              /\ stack' = SetTop(t, [f EXCEPT !.pc = AfterCapture(lost),
                                              !.lost = lost,
                                              !.trace = @ \o <<"dbgDumpHeader", "write_signal",
                                                               "dbgDumpLog", "backtrace", "fsync">>])
    /\ UNCHANGED <<build, prior, which, flaky, programPath, gdbPath, sigact, oldAction,
                   programIsAvailable, gdbIsAvailable, installed, allreadyRunning, threads,
                   pending, termSig, children, faults, budget, userCalls, done, cls>>

(* ---------------------- execGdb, gdbExtendedBacktrace ------------------ *)

\* The "bare minimum" check of execGdb: GDB and the program's path.
ToolsAvailable_m == programIsAvailable
ToolsAvailable == programIsAvailable /\ gdbIsAvailable

\* What execGdb writes when the check fails.
UnavailableNotes ==
    <<"No extended backtrace dumped:\n">>
    \o (IF ~programIsAvailable THEN <<"- Program path not available\n">> ELSE <<>>)
    \o (IF ~gdbIsAvailable THEN <<"- GDB not available\n">> ELSE <<>>)

\* Where posixExceptionHandler continues once gdbExtendedBacktrace returned
\* ret: its return value is not looked at.
AfterBacktrace_m(ret) == IF ret = "false" THEN "return" ELSE "print"
AfterBacktrace(ret) == "print"

\* gdbExtendedBacktrace returns ret to posixExceptionHandler.
Returned(f, ret, outcome, events) ==
    [f EXCEPT !.ret = ret, !.outcome = outcome, !.pc = AfterBacktrace(ret),
              !.trace = @ \o events]

\* execGdb(dumpFile, &gdbPipe) as called by gdbExtendedBacktrace, up to the
\* parent's return from it; pid == 0 makes gdbExtendedBacktrace return false,
\* otherwise the parent writes gdbCommands to the pipe and flushes it.
ExecGdb(t) ==
    /\ At(t, "execGdb")
    /\ LET f == Top(t)
           failed(ws, outcome, g, events) ==
               \E l \in WriteOutcomes(NoteWrites) :
                   /\ files' = Write(files, f.dumpFile, Kept("notes", l, ws))
                   /\ stack' = SetTop(t, Returned([g EXCEPT !.lost = @ \cup l],
                                                  "false", outcome, events))
                   /\ UNCHANGED children
       IN  \/ /\ ~ToolsAvailable
              /\ failed(UnavailableNotes, "unavailable", f, <<"execGdb">>)
           \/ /\ ToolsAvailable
              /\ failed(<<"Pipe failed\n">>, "pipe_failed",
                        [f EXCEPT !.printed = Append(@, Printed("Pipe failed", 0))],
                        <<"execGdb", "pipe">>)
           \/ /\ ToolsAvailable
              /\ failed(<<"Fork failed\n">>, "fork_failed",
                        [f EXCEPT !.pipeR = "closed", !.pipeW = "closed",
                                  !.printed = Append(@, Printed("Fork failed", 0))],
                        <<"execGdb", "pipe", "fork">>)
           \/ /\ ToolsAvailable
              /\ children' = Append(children,
                                    [state |-> "forked", status |-> 0,
                                     file |-> f.dumpFile, commands |-> TRUE,
                                     did |-> <<>>])
              /\ stack' = SetTop(t, [f EXCEPT !.pid = Len(children) + 1,
                                              !.pipeR = "open", !.pipeW = "open",
                                              !.pc = "waitpid",
                                              !.trace = @ \o <<"execGdb", "pipe", "fork",
                                                               "write_commands", "fsync_pipe">>])
              /\ UNCHANGED files
    /\ UNCHANGED <<build, prior, which, flaky, programPath, gdbPath, sigact, oldAction,
                   programIsAvailable, gdbIsAvailable, installed, allreadyRunning, threads,
                   pending, termSig, faults, budget, userCalls, done, cls>>

\* The child has terminated.
Terminated(c) == children[c].state \in {"exited", "signaled"}

\* WIFEXITED(status) && WEXITSTATUS(status) == 0
ExitedZero_m(c) == children[c].state = "exited"
ExitedZero(c) == children[c].state = "exited" /\ children[c].status = 0

\* waitpid(pid, &status, 0); close(gdbPipe); and the checks of wpid and
\* status.  waitpid blocks until the child has terminated, or fails (EINTR
\* when a handler without SA_RESTART interrupts it, ECHILD).
Waitpid(t) ==
    /\ At(t, "waitpid")
    /\ LET f == [Top(t) EXCEPT !.pipeW = "closed"]
           c == f.pid
           failed(outcome) ==
               \E l \in WriteOutcomes(NoteWrites) :
                   /\ files' = Write(files, f.dumpFile, Kept("notes", l, <<"GDB failed\n">>))
                   /\ stack' = SetTop(t, Returned([f EXCEPT !.printed = Append(@, Printed("GDB failed", 0)),
                                                            !.lost = @ \cup l],
                                                  "false", outcome, <<"waitpid", "close_pipe">>))
       IN  \/ failed("waitpid_failed")
           \/ /\ Terminated(c) /\ children[c].state = "signaled"
              /\ failed("child_signaled")
           \/ /\ Terminated(c) /\ children[c].state = "exited" /\ ~ExitedZero(c)
              /\ failed("child_nonzero")
           \/ /\ Terminated(c) /\ ExitedZero(c)
              /\ stack' = SetTop(t, Returned(f, "true", "success", <<"waitpid", "close_pipe">>))
              /\ UNCHANGED files
    /\ UNCHANGED <<build, prior, which, flaky, programPath, gdbPath, sigact, oldAction, programIsAvailable,
                   gdbIsAvailable, installed, allreadyRunning, threads, pending,
                   termSig, children, faults, budget, userCalls, done, cls>>

\* What the child does between fork and execve.
ChildPrologue == <<"close_pipe_w", "dup2_stdin", "dup2_stdout", "write_heading", "execve">>

\* exit(1) of the child whose execve failed.
ExecFailExit_m == 1 - 1
ExecFailExit == 1

\* The child of fork(): it redirects stdin and stdout, writes the heading
\* and calls execve; when execve fails it writes the note and exits with 1.
ChildExec(c) ==
    /\ termSig = "none"
    /\ children[c].state = "forked"
    /\ \/ /\ files' = Write(files, children[c].file, <<"GDB extended backtrace:\n">>)
          /\ children' = [children EXCEPT ![c].state = "gdb", ![c].did = ChildPrologue]
       \/ /\ files' = Write(files, children[c].file,
                            <<"GDB extended backtrace:\n", "execcv(\"gdb\") failed\n">>)
          /\ children' = [children EXCEPT ![c].state = "exited", ![c].status = ExecFailExit,
                                          ![c].did = ChildPrologue \o <<"write_exec_failed", "exit">>]
    /\ UNCHANGED <<build, prior, which, flaky, programPath, gdbPath, sigact, oldAction,
                   programIsAvailable, gdbIsAvailable, installed, allreadyRunning, threads,
                   stack, pending, termSig, faults, budget, userCalls, done, cls>>

\* The debugger writes its transcript to its stdout, the dump file, and
\* terminates: with status 0, with another status, or killed by a signal.
GdbTerminates(c) ==
    /\ termSig = "none"
    /\ children[c].state = "gdb"
    /\ files' = Write(files, children[c].file, <<"<gdb transcript>">>)
    /\ \/ children' = [children EXCEPT ![c].state = "exited", ![c].status = 0]
       \/ children' = [children EXCEPT ![c].state = "exited", ![c].status = 1]
       \/ children' = [children EXCEPT ![c].state = "signaled"]
    /\ UNCHANGED <<build, prior, which, flaky, programPath, gdbPath, sigact, oldAction,
                   programIsAvailable, gdbIsAvailable, installed, allreadyRunning, threads,
                   stack, pending, termSig, faults, budget, userCalls, done, cls>>

(* -------------------- posixExceptionHandler, the end ------------------- *)

\* printf("Saved dump file to '%s'\n" ..., dumpFilename); close(dumpFile);
PrintAndClose(t) ==
    /\ At(t, "print")
    /\ files' = [files EXCEPT ![Top(t).dumpFile].open = FALSE]
    /\ stack' = SetTop(t, [Top(t) EXCEPT !.pc = "restore",
                                         !.printed = Append(@, Printed("Saved dump file to",
                                                                       Top(t).dumpFile)),
                                         !.trace = @ \o <<"printf_saved", "close">>])
    /\ UNCHANGED <<build, prior, which, flaky, programPath, gdbPath, sigact, oldAction, programIsAvailable,
                   gdbIsAvailable, installed, allreadyRunning, threads, pending,
                   termSig, children, faults, budget, userCalls, done, cls>>

\* sigaction(signum, &oldAction[signum], NULL);
Restore(t) ==
    /\ At(t, "restore")
    /\ sigact' = [sigact EXCEPT ![Top(t).signum] = oldAction[Top(t).signum]]
    /\ stack' = SetTop(t, Step(Top(t), "raise", "sigaction"))
    /\ UNCHANGED <<build, prior, which, flaky, programPath, gdbPath, oldAction, programIsAvailable, gdbIsAvailable,
                   installed, allreadyRunning, threads, pending, termSig, files,
                   children, faults, budget, userCalls, done, cls>>

\* raise(signum); and the closing brace of posixExceptionHandler.  The
\* signal is still blocked when it is raised, so it stays pending until the
\* handler returns.
RaiseAndReturn(t) ==
    /\ At(t, "raise")
    /\ LET s == Top(t).signum
           base == SubSeq(stack[t], 1, Len(stack[t]) - 1)
       IN  /\ done' = [done EXCEPT ![t] = Append(@, Step(Top(t), "returned", "raise"))]
           /\ pending' = [pending EXCEPT ![t] = @ \ {s}]
           /\ Dispatch(t, s, SI_USER, base)
    /\ UNCHANGED <<build, prior, which, flaky, programPath, gdbPath, sigact, oldAction, programIsAvailable,
                   gdbIsAvailable, installed, allreadyRunning, threads, files,
                   children, faults, budget, cls>>

(* --------------------------- specifications ---------------------------- *)

Next ==
    \/ setupExceptionHandler
    \/ \E t \in threads : Fault(t)
    \/ \E t \in threads : Guard(t)
    \/ \E t \in threads : SetFlag(t)
    \/ \E t \in threads : Mkstemp(t)
    \/ \E t \in threads : Capture(t)
    \/ \E t \in threads : ExecGdb(t)
    \/ \E t \in threads : Waitpid(t)
    \/ \E c \in DOMAIN children : ChildExec(c)
    \/ \E c \in DOMAIN children : GdbTerminates(c)
    \/ \E t \in threads : PrintAndClose(t)
    \/ \E t \in threads : Restore(t)
    \/ \E t \in threads : RaiseAndReturn(t)

\* One thread.
Spec == Init /\ [][Next]_vars

\* Two threads of the same process, which may fault at the same time.
InitMT ==
    /\ build = [xopen |-> TRUE, glibc |-> TRUE, pollSame |-> FALSE]
    /\ prior = [s \in Signals |-> SigDfl]
    /\ which \in [program : {WhichFound, WhichNotFound}, gdb : {WhichFound, WhichNotFound}]
    /\ flaky = FALSE
    /\ threads = {1, 2}
    /\ budget = [t \in threads |-> 1]
    /\ InitCommon

SpecMT == InitMT /\ [][Next]_vars

(* ------------------ the registrar and the classifier alone ------------- *)

\* setupExceptionHandler from every combination of at most MaxNonDefault
\* dispositions set by the embedder, over all signals and both _XOPEN_UNIX
\* settings; no fault follows.
InitReg ==
    /\ build \in {b \in Builds : b.glibc /\ ~b.pollSame}
    /\ prior \in Priors(Signals, MaxNonDefault)
    /\ which \in [program : {WhichFound, WhichNotFound}, gdb : {WhichFound, WhichNotFound}]
    /\ flaky = FALSE
    /\ threads = {1}
    /\ budget = [t \in threads |-> 0]
    /\ InitCommon

NextReg == setupExceptionHandler

SpecReg == InitReg /\ [][NextReg]_vars

\* setupExceptionHandler for every pair of outcomes of the two popen("which
\* ...") calls: the stream cannot be opened, or it yields any output of at
\* most BufSize + 1 bytes.
InitSetup ==
    /\ build = [xopen |-> TRUE, glibc |-> TRUE, pollSame |-> FALSE]
    /\ prior \in Priors(FaultSigs, MaxNonDefault)
    /\ which \in [program : WhichOutcomes, gdb : WhichOutcomes]
    /\ flaky = FALSE
    /\ threads = {1}
    /\ budget = [t \in threads |-> 0]
    /\ InitCommon

NextSetup == setupExceptionHandler

SpecSetup == InitSetup /\ [][NextSetup]_vars

\* One fault in a run where any write to the dump file may fail.
InitIO ==
    /\ build = [xopen |-> TRUE, glibc |-> TRUE, pollSame |-> FALSE]
    /\ prior = [s \in Signals |-> SigDfl]
    /\ which \in [program : {WhichFound, WhichNotFound}, gdb : {WhichFound, WhichNotFound}]
    /\ flaky = TRUE
    /\ threads = {1}
    /\ budget = [t \in threads |-> 1]
    /\ InitCommon

SpecIO == InitIO /\ [][Next]_vars

\* Cause codes that come with any signal (sent by kill, by the kernel, by
\* sigqueue); no inner switch names them.
GenericCodes == {SI_USER, "SI_KERNEL", "SI_QUEUE"}

\* const char * signal = wz_strsignal(siginfo->si_signo, siginfo->si_code);
Classify ==
    /\ cls.signum # "none" /\ cls.result = "none"
    /\ cls' = [cls EXCEPT !.result = wz_strsignal(build, cls.signum, cls.sigcode)]
    /\ UNCHANGED <<build, prior, which, flaky, programPath, gdbPath, sigact, oldAction, programIsAvailable,
                   gdbIsAvailable, installed, allreadyRunning, threads, stack,
                   pending, termSig, files, children, faults, budget, userCalls,
                   done>>

\* One call of wz_strsignal for every signal, every cause code and every build.
InitSig ==
    /\ build \in Builds
    /\ prior = [s \in Signals |-> SigDfl]
    /\ threads = {1}
    /\ budget = [t \in threads |-> 0]
    /\ sigact = prior
    /\ oldAction = [s \in Signals |-> SigDfl]
    /\ which = [program |-> WhichFound, gdb |-> WhichFound]
    /\ flaky = FALSE
    /\ programIsAvailable = FALSE
    /\ gdbIsAvailable = FALSE
    /\ programPath = <<>>
    /\ gdbPath = <<>>
    /\ installed = FALSE
    /\ allreadyRunning = 0
    /\ stack = [t \in threads |-> <<>>]
    /\ pending = [t \in threads |-> {}]
    /\ termSig = "none"
    /\ files = <<>>
    /\ children = <<>>
    /\ faults = [t \in threads |-> 0]
    /\ userCalls = [s \in Signals |-> 0]
    /\ done = [t \in threads |-> <<>>]
    /\ \E s \in Signals : \E c \in CodesOf(s) \cup GenericCodes :
          cls = [signum |-> s, sigcode |-> c, result |-> "none"]

NextSig == Classify

SpecSig == InitSig /\ [][NextSig]_vars

(* ------------------------------- claims -------------------------------- *)

\* Every activation of posixExceptionHandler of thread t, running or returned.
FramesOf(t) == stack[t] \o done[t]

\* The activations of thread t that satisfy P.
Count(t, P(_)) == Cardinality({i \in DOMAIN FramesOf(t) : P(FramesOf(t)[i])})

\* P holds of every activation, running or returned, of every thread.
AllFrames(P(_)) ==
    \A t \in threads :
        /\ \A i \in DOMAIN stack[t] : P(stack[t][i])
        /\ \A i \in DOMAIN done[t] : P(done[t][i])

Has(f, event) == \E i \in DOMAIN f.trace : f.trace[i] = event

Range(q) == {q[i] : i \in DOMAIN q}

\* The events of execGdb and gdbExtendedBacktrace.
OrchestratorEvents ==
    {"execGdb", "pipe", "fork", "write_commands", "fsync_pipe", "waitpid", "close_pipe"}

\* What the activation did after gdbExtendedBacktrace returned.
AfterOrchestrator(f) ==
    LET last == CHOOSE i \in DOMAIN f.trace :
                    /\ f.trace[i] \in OrchestratorEvents
                    /\ \A j \in DOMAIN f.trace : j > i => f.trace[j] \notin OrchestratorEvents
    IN  SubSeq(f.trace, last + 1, Len(f.trace))

\* C1: however many faults are delivered in one process, the capture logic
\* runs at most once: at most one dump file is created by mkstemp and at
\* most one debugger child is forked.
C1_CaptureAtMostOnce == Len(files) <= 1 /\ Len(children) <= 1

\* C2: an invocation of posixExceptionHandler never returns without having
\* restored the previous handler of its signal and re-raised the signal.
C2_ReturnsOnlyAfterReraise ==
    \A t \in threads : \A i \in DOMAIN done[t] :
        LET tr == done[t][i].trace
        IN  /\ Len(tr) >= 2
            /\ tr[Len(tr) - 1] = "sigaction"
            /\ tr[Len(tr)] = "raise"

\* C3: in every episode that created the dump file, each raise(signum) comes
\* after sigaction restored oldAction[signum], which comes after the dump
\* file was closed; and once such an episode has returned, its signal is no
\* longer handled by posixExceptionHandler.
C3_RestoreBeforeRaiseAfterClose ==
    \A t \in threads : \A n \in DOMAIN FramesOf(t) :
        LET f == FramesOf(t)[n]
        IN  f.dumpFile > 0 =>
              /\ \A j \in DOMAIN f.trace :
                    f.trace[j] = "raise" =>
                        \E i \in 1..(j - 1) :
                            /\ f.trace[i] = "sigaction"
                            /\ \E k \in 1..(i - 1) : f.trace[k] = "close"
              /\ f.pc = "returned" => sigact[f.signum].handler # "posixExceptionHandler"

\* C4: when mkstemp fails the responder prints the failure message, runs no
\* capture step, and still restores oldAction[signum] and re-raises signum.
C4_MkstempFailureStillReraises ==
    \A t \in threads : \A n \in DOMAIN FramesOf(t) :
        LET f == FramesOf(t)[n]
        IN  f.dumpFile = -1 =>
              /\ \E i \in DOMAIN f.printed : f.printed[i].msg = "Failed to create dump file"
              /\ Range(f.trace) \cap ({"dbgDumpHeader", "write_signal", "dbgDumpLog",
                                       "backtrace", "fsync"} \cup OrchestratorEvents) = {}
              /\ Has(f, "sigaction")
              /\ f.trace[Len(f.trace)] = "raise"

\* C5: a fault that enters posixExceptionHandler with allreadyRunning set is
\* re-raised at once and the handler goes no further: it never calls mkstemp.
C5_ReentrantFaultSkipsCapture ==
    \A t \in threads : \A n \in DOMAIN FramesOf(t) :
        LET f == FramesOf(t)[n]
        IN  f.sawRunning = 1 =>
              /\ f.dumpFile = 0
              /\ ~Has(f, "mkstemp")
              /\ f.pc \in {"setflag", "mkstemp"}

\* The activation has called gdbExtendedBacktrace.
CalledOrchestrator(f) == Has(f, "execGdb")

\* C6: with programIsAvailable or gdbIsAvailable false, gdbExtendedBacktrace
\* returns failure without pipe, fork or exec (no child ever exists), and the
\* dump file, which was created, holds the capture sections followed by
\* "No extended backtrace dumped:" and one line for each missing location
\* and for no other.
C6_UnresolvedToolNoSpawn ==
    ~(programIsAvailable /\ gdbIsAvailable) =>
        /\ children = <<>>
        /\ AllFrames(LAMBDA f :
              LET file == files[f.dumpFile]
                  notes == SubSeq(file.content, file.synced + 1, Len(file.content))
              IN  CalledOrchestrator(f) =>
                    /\ f.ret = "false" /\ f.pid = 0
                    /\ f.pipeR = "none" /\ f.pipeW = "none"
                    /\ ~Has(f, "pipe") /\ ~Has(f, "fork")
                    /\ f.dumpFile > 0
                    /\ file.synced > 0
                    /\ SubSeq(file.content, 1, file.synced) = CaptureSections(f)
                    /\ notes # <<>>
                    /\ notes[1] = "No extended backtrace dumped:\n"
                    /\ Range(Tail(notes)) =
                          {x \in {"- Program path not available\n"} : ~programIsAvailable}
                          \cup {x \in {"- GDB not available\n"} : ~gdbIsAvailable}
                    /\ Len(notes) = 1 + Cardinality(Range(Tail(notes))))

\* C6 witness: an episode ran the orchestrator with the debugger unresolved
\* and the program path resolved, and has returned.
C6_Witness ==
    /\ programIsAvailable /\ ~gdbIsAvailable
    /\ \E t \in threads : \E i \in DOMAIN done[t] : done[t][i].outcome = "unavailable"

\* C7: whatever the outcome of gdbExtendedBacktrace, the responder then
\* prints the message naming the dump file, closes the dump file, restores
\* oldAction[signum] and re-raises signum, in this order and skipping none:
\* an activation that returned after the orchestrator has done all four.
C7_OrchestratorOutcomeNeverSkipsFinalSteps ==
    AllFrames(LAMBDA f :
        LET all == <<"printf_saved", "close", "sigaction", "raise">>
            k == CASE f.pc = "print" -> 0
                   [] f.pc = "restore" -> 2
                   [] f.pc = "raise" -> 3
                   [] f.pc = "returned" -> 4
            m == Len(f.trace)
        IN  f.outcome # "none" =>
              /\ f.pc \in {"print", "restore", "raise", "returned"}
              /\ m > k
              /\ f.trace[m - k] \in OrchestratorEvents
              /\ \A i \in 1..k : f.trace[m - k + i] = all[i]
              /\ f.pc # "print" =>
                    /\ f.printed[Len(f.printed)] = Printed("Saved dump file to", f.dumpFile)
                    /\ ~files[f.dumpFile].open
              /\ f.pc \in {"raise", "returned"} => sigact[f.signum] = oldAction[f.signum])

\* C7 witness: an episode whose debugger child exited with a non-zero status
\* has returned.
C7_Witness ==
    \E t \in threads : \E i \in DOMAIN done[t] : done[t][i].outcome = "child_nonzero"

\* The sum of f over S.
RECURSIVE Sum(_, _)
Sum(f, S) == IF S = {} THEN 0
             ELSE LET x == CHOOSE y \in S : TRUE IN f[x] + Sum(f, S \ {x})

\* The executions of posixExceptionHandler that found allreadyRunning clear.
PassedGuard == Sum([t \in threads |-> Count(t, LAMBDA f : f.sawRunning = 0)], threads)

\* C8: with two threads faulting at the same time at most one execution of
\* the responder passes the guard, and no two create a dump file or fork.
C8_AtMostOnePassesGuard ==
    /\ PassedGuard <= 1
    /\ Len(files) <= 1
    /\ Len(children) <= 1

\* C9: after setFatalSignalHandler, every signal of the fatal set that was
\* not ignored is handled by posixExceptionHandler with SA_SIGINFO, and
\* oldAction holds the disposition it had before.
C9_FatalSignalsInstalled ==
    installed =>
        \A s \in FatalSet(build) :
            prior[s].handler # "SIG_IGN" =>
                /\ sigact[s].handler = "posixExceptionHandler"
                /\ "SA_SIGINFO" \in sigact[s].flags
                /\ oldAction[s] = prior[s]

\* C9 witness: the registrar ran in a process where a fatal signal had a
\* handler of the embedder and another one was ignored.
C9_Witness ==
    /\ installed
    /\ \E s \in FatalSet(build) : prior[s] = UserAction
    /\ \E s \in FatalSet(build) : prior[s] = SigIgn

\* The signals wz_strsignal has a case for on build b.
Cased(b) == CasedBase \cup (IF b.xopen THEN CasedXopen ELSE {})

\* C10: for every signal and cause code wz_strsignal returns a non-empty
\* string, and for a signal it has no case for the string "Unknown signal",
\* whatever the cause code.
C10_ClassifierTotal ==
    cls.result # "none" =>
        /\ Len(cls.result) > 0
        /\ cls.signum \notin Cased(build) => cls.result = "Unknown signal"

\* C10 witness: the classifier was called for a signal it has no case for on
\* this build, with a cause code that an inner switch names elsewhere.
C10_Witness ==
    /\ cls.result = "Unknown signal"
    /\ cls.sigcode \in CodesOf(cls.signum)

\* C11: wz_strsignal has a mapping for every signal setFatalSignalHandler
\* subscribes to on the same build: whatever the cause code, the result is
\* not "Unknown signal"; and for SIGSEGV with SEGV_MAPERR the description
\* the responder writes to the dump file is "Dump caused by signal: ", then
\* exactly "SIGSEGV: Invalid memory reference: Address not mapped to object".
C11_FatalSignalsClassified ==
    cls.result # "none" =>
        /\ cls.signum \in FatalSet(build) => cls.result # "Unknown signal"
        /\ (cls.signum = "SIGSEGV" /\ cls.sigcode = "SEGV_MAPERR") =>
              /\ cls.result = "SIGSEGV: Invalid memory reference: Address not mapped to object"
              /\ SignalDescription([signum |-> cls.signum, sigcode |-> cls.sigcode]) =
                    <<"Dump caused by signal: ",
                      "SIGSEGV: Invalid memory reference: Address not mapped to object",
                      "\n\n">>

\* C11 witness: the classifier was called for a signal subscribed to only
\* with _XOPEN_UNIX, on such a build, with a cause code its switch does not
\* name, and returned that signal's coarse description.
C11_Witness ==
    /\ build.xopen
    /\ cls.signum = "SIGTRAP" /\ cls.sigcode = "SI_KERNEL"
    /\ cls.result = "SIGTRAP: Trace/breakpoint trap"

\* C12: gdbExtendedBacktrace returns true exactly when a child was forked,
\* waitpid succeeded and the child exited with status 0; when a child was
\* forked and it returns false (waitpid failed, the child was killed or its
\* status is not 0), "GDB failed" was written to the dump file and printed.
C12_BacktraceSuccessIffChildExitedZero ==
    AllFrames(LAMBDA f :
        LET file == files[f.dumpFile]
            noted == \E i \in (file.synced + 1)..Len(file.content) :
                         file.content[i] = "GDB failed\n"
        IN  f.ret # "none" =>
              /\ f.ret \in {"true", "false"}
              /\ f.ret = "true" <=>
                    /\ f.pid > 0
                    /\ f.outcome # "waitpid_failed" /\ Has(f, "waitpid")
                    /\ children[f.pid].state = "exited"
                    /\ children[f.pid].status = 0
              /\ (f.pid > 0 /\ f.ret = "false") =>
                    /\ noted
                    /\ \E i \in DOMAIN f.printed : f.printed[i].msg = "GDB failed"
              /\ f.ret = "true" => ~noted)

\* C12 witness: an episode whose debugger child was killed by a signal has
\* returned, and so has one whose child exited with status 0.
C12_Witness ==
    /\ \E t \in threads : \E i \in DOMAIN done[t] : done[t][i].outcome = "child_signaled"
    /\ \E t \in threads : \E i \in DOMAIN done[t] : done[t][i].ret = "true"

\* "which" wrote a path that fits the buffer: some bytes other than a
\* linefeed first, and fewer bytes than the buffer holds.
Resolved(w) == w.started /\ w.out # <<>> /\ Len(w.out) < BufSize /\ w.out[1] # "\n"

\* C13: setupExceptionHandler never aborts startup: whatever the two
\* popen("which ...") calls yield (a path, nothing, more than the buffer
\* holds, no stream at all), the process is not ended before the handlers
\* are installed, and once setupExceptionHandler has run the two flags tell
\* whether each path was resolved and every fatal signal that was not
\* ignored is handled by posixExceptionHandler.
C13_SetupNeverAborts ==
    /\ ~installed => termSig = "none"
    /\ installed =>
          /\ programIsAvailable = Resolved(which.program)
          /\ gdbIsAvailable = Resolved(which.gdb)
          /\ \A s \in FatalSet(build) :
                prior[s].handler # "SIG_IGN" => sigact[s].handler = "posixExceptionHandler"

\* The children forked by the episode that wrote dump file fd.
ChildrenOf(fd) == {c \in DOMAIN children : children[c].file = fd}

\* C14: an episode that forked has exactly one child and awaits it: while
\* the child has not terminated, gdbExtendedBacktrace has not returned and
\* the responder has neither closed the dump file nor restored the old
\* action to re-raise.
C14_ChildAwaitedSynchronously ==
    \A t \in threads : \A n \in DOMAIN FramesOf(t) :
        LET f == FramesOf(t)[n]
        IN  f.pid > 0 =>
              /\ ChildrenOf(f.dumpFile) = {f.pid}
              /\ ~Terminated(f.pid) =>
                    /\ f.ret = "none"
                    /\ files[f.dumpFile].open
                    /\ ~Has(f, "close") /\ ~Has(f, "sigaction")

\* C15: when gdbExtendedBacktrace has returned, no end of a pipe it created
\* is still open in the faulting process.
C15_PipeEndsClosed ==
    \A t \in threads : \A n \in DOMAIN FramesOf(t) :
        LET f == FramesOf(t)[n]
        IN  f.ret # "none" => f.pipeR # "open" /\ f.pipeW # "open"

\* What an activation did after the guard: its trace without the raise of
\* the guard.
Body(f) == IF f.sawRunning = 1 /\ f.trace # <<>> THEN Tail(f.trace) ELSE f.trace

\* The steps from mkstemp to the call of gdbExtendedBacktrace.
CaptureOrder ==
    <<"mkstemp", "dbgDumpHeader", "write_signal", "dbgDumpLog", "backtrace", "fsync", "execGdb">>

\* One of the sequences p and q starts with the other.
Agree(p, q) ==
    \A i \in 1..(IF Len(p) < Len(q) THEN Len(p) ELSE Len(q)) : p[i] = q[i]

\* What the debugger child writes to the dump file.
ChildBytes ==
    {"GDB extended backtrace:\n", "execcv(\"gdb\") failed\n", "<gdb transcript>"}

\* C16: the responder writes header, fault description, recent log and raw
\* backtrace in this order, then fsyncs the dump file, and only then calls
\* gdbExtendedBacktrace; whatever the debugger child writes comes after all
\* these sections; and the dump file is closed only after
\* gdbExtendedBacktrace has returned.
C16_CaptureOrderThenOrchestrator ==
    AllFrames(LAMBDA f :
        LET file == files[f.dumpFile]
            sections == <<"<header>", "Dump caused by signal: ",
                          wz_strsignal(build, f.signum, f.sigcode), "\n\n", "<log>",
                          "GLIBC raw backtrace:\n", "<backtrace_symbols>", "\n">>
            flushed == f.pc # "capture"
        IN  f.dumpFile > 0 =>
              /\ Agree(Body(f), CaptureOrder)
              /\ flushed <=> Len(Body(f)) >= Len(CaptureOrder) - 1
              /\ flushed =>
                    /\ file.synced = Len(sections)
                    /\ \A i \in 1..file.synced : file.content[i] = sections[i]
              /\ \A i \in DOMAIN file.content :
                    file.content[i] \in ChildBytes => flushed /\ f.pid > 0 /\ i > file.synced
              /\ (~file.open \/ Has(f, "close")) => f.ret # "none")

\* C16 witness: an episode whose debugger wrote its transcript has returned.
C16_Witness ==
    \E t \in threads : \E i \in DOMAIN done[t] :
        /\ done[t][i].ret = "true"
        /\ "<gdb transcript>" \in Range(files[done[t][i].dumpFile].content)

\* execve failed in child c.
ExecFailed(c) == Len(children[c].did) > Len(ChildPrologue)

FinalOrder == <<"printf_saved", "close", "sigaction", "raise">>

\* C18: whichever writes to the dump file fail, the responder goes through
\* the same steps: the capture steps and the call of gdbExtendedBacktrace
\* in their order, and an activation that has returned has printed the
\* message, closed the dump file, restored the old action and re-raised.
C18_FailedWritesAbortNothing ==
    AllFrames(LAMBDA f :
        f.dumpFile > 0 =>
              /\ f.lost \subseteq CaptureWrites \cup NoteWrites
              /\ Agree(Body(f), CaptureOrder)
              /\ f.pc = "returned" =>
                    /\ Len(Body(f)) >= Len(CaptureOrder) + Len(FinalOrder)
                    /\ f.ret # "none"
                    /\ AfterOrchestrator(f) = FinalOrder
                    /\ ~files[f.dumpFile].open)

\* C18 witness: an episode in which every capture write and the write of
\* the orchestrator's note failed has returned.
C18_Witness ==
    \E t \in threads : \E i \in DOMAIN done[t] :
        /\ done[t][i].lost = CaptureWrites \cup NoteWrites
        /\ files[done[t][i].dumpFile].content = <<>>

\* C19: a fatal signal that was ignored when setFatalSignalHandler ran and
\* every signal outside the fatal set keep the disposition they had, and
\* posixExceptionHandler is never entered for any of them (so no dump file
\* and no debugger comes from their delivery).
C19_IgnoredAndOtherSignalsUntouched ==
    LET fatal == FatalSet(build)
        subscribed(s) == s \in fatal /\ prior[s].handler # "SIG_IGN"
    IN  /\ \A s \in Signals : sigact[s] # prior[s] => subscribed(s)
        /\ AllFrames(LAMBDA f : subscribed(f.signum))

\* C19 witness: SIGABRT was ignored before setup and has been delivered
\* while the episode of a SIGSEGV was still running (the second fault can
\* only be the SIGABRT), and there is one dump file, the SIGSEGV's.
C19_Witness ==
    /\ installed /\ termSig = "none"
    /\ prior["SIGABRT"] = SigIgn /\ prior["SIGSEGV"] = SigDfl
    /\ faults[1] = 2
    /\ Len(stack[1]) = 1 /\ done[1] = <<>>
    /\ Len(files) = 1

\* C20: while the debugger child of an episode has not terminated, the
\* responder is blocked in waitpid: it has not printed the message that
\* names the dump file, not closed the dump file, and not re-raised.
C20_BlockedWhileChildRuns ==
    \A t \in threads : \A n \in DOMAIN FramesOf(t) :
        LET f == FramesOf(t)[n]
        IN  (f.pid > 0 /\ children[f.pid].state \in {"forked", "gdb"}) =>
              /\ f.pc = "waitpid"
              /\ \A i \in DOMAIN f.printed : f.printed[i].msg # "Saved dump file to"
              /\ files[f.dumpFile].open
              /\ f.trace[Len(f.trace)] # "raise"

\* The bytes of out before its first linefeed (all of out if it has none).
FirstLine(out) ==
    LET k == CHOOSE n \in 0..Len(out) :
                 /\ \A i \in 1..n : out[i] # "\n"
                 /\ n = Len(out) \/ out[n + 1] = "\n"
    IN  SubSeq(out, 1, k)

\* What fetchProgramPath is to report and to store for the output out.
PathReported(out, available, path) ==
    /\ available <=> ~(Len(out) >= BufSize \/ FirstLine(out) = <<>>)
    /\ available => path = FirstLine(out)

\* C21: fetchProgramPath reports "not available" exactly when the output of
\* "which" fills the whole buffer or is empty once the first linefeed and
\* what follows it are cut off; otherwise it reports available and the
\* stored path is the output before the first linefeed.
C21_PathAvailableIffFitsAndNonEmpty ==
    installed =>
        /\ PathReported(which.program.out, programIsAvailable, programPath)
        /\ PathReported(which.gdb.out, gdbIsAvailable, gdbPath)

\* C21 witness: "which" printed the program's path and a linefeed, and for
\* gdb exactly as many bytes as the buffer holds, starting with a path.
C21_Witness ==
    /\ installed
    /\ programIsAvailable
    /\ Len(which.program.out) > Len(programPath)
    /\ Len(which.gdb.out) = BufSize /\ which.gdb.out[1] # "\n"
    /\ ~gdbIsAvailable

\* The string desc starts with the string prefix.
StartsWith(desc, prefix) ==
    Len(desc) >= Len(prefix) /\ SubSeq(desc, 1, Len(prefix)) = prefix

\* C22: for a signal wz_strsignal has a case for, and any cause code, named
\* by that signal's inner switch or not, the description starts with the
\* signal's own name and a colon.
C22_DescriptionNamesItsSignal ==
    (cls.result # "none" /\ cls.signum \in Cased(build)) =>
        StartsWith(cls.result, cls.signum \o ":")

====
